---- MODULE Spec2Model ----
(***************************************************************************)
(* Dynamic hash tables of santanusen/mit_006: hashing with chaining and    *)
(* table doubling (m6006_09_01_table_doubling.cpp) and hashing with open   *)
(* addressing (part_006), with their hash and probing function families.   *)
(*                                                                         *)
(* A uint32_t value v is the pair <<v \div 65536, v % 65536>>, so that the *)
(* whole 32-bit range (the markers 0xFFFFFFFE and 0xFFFFFFFF, the          *)
(* multiplier of Fibonacci hashing, a wrapped counter) is representable    *)
(* and every product below is computed modulo 2^32 in 16-bit limbs.        *)
(***************************************************************************)
EXTENDS Integers, Sequences, FiniteSets, TLC

VARIABLES prog, open, onums, olive, olast, ostreak,
          chain, cnums, clive, cphase, clast, cstreak, fn

vars == <<prog, open, onums, olive, olast, ostreak,
          chain, cnums, clive, cphase, clast, cstreak, fn>>

openVars == <<open, onums, olive, olast, ostreak>>

chainVars == <<chain, cnums, clive, cphase, clast, cstreak>>

----------------------------------------------------------------------------
(* uint32_t arithmetic *)

TwoTo16 == 2^16

U32(n) == <<n \div TwoTo16, n % TwoTo16>>

UINT32_MAX == <<65535, 65535>>

U32Inc(u) ==
  IF u[2] < 65535 THEN <<u[1], u[2] + 1>>
  ELSE IF u[1] < 65535 THEN <<u[1] + 1, 0>> ELSE <<0, 0>>

U32Dec(u) ==
  IF u[2] > 0 THEN <<u[1], u[2] - 1>>
  ELSE IF u[1] > 0 THEN <<u[1] - 1, 65535>> ELSE <<65535, 65535>>

U32Add(a, b) ==
  LET lo == a[2] + b[2]
  IN  <<(a[1] + b[1] + lo \div TwoTo16) % TwoTo16, lo % TwoTo16>>

\* x * y modulo 2^16 for x, y < 2^16, through 24-bit partial products
MulMod16(x, y) ==
  (x * (y % 256) + ((x * (y \div 256)) % 256) * 256) % TwoTo16

\* a * b modulo 2^32
U32Mul(a, b) ==
  LET p0 == a[2] * (b[2] % 256)
      p1 == a[2] * (b[2] \div 256)
      s  == p0 + (p1 % 256) * 256
      lo == s % TwoTo16
      c  == s \div TwoTo16 + p1 \div 256
  IN  <<(c + MulMod16(a[1], b[2]) + MulMod16(a[2], b[1])) % TwoTo16, lo>>

\* u % m for 0 < m <= 2^15
U32Mod(u, m) == ((u[1] % m) * (TwoTo16 % m) + u[2]) % m

\* a <= b
U32Le(a, b) == a[1] < b[1] \/ (a[1] = b[1] /\ a[2] <= b[2])

----------------------------------------------------------------------------
(* Hash functions.  A hash function object is a record                     *)
(* [kind, M, R, P, A, B]; the fields a kind does not have stay 0.          *)

\* Fibonacci hashing multiplier (1 << 32) / 1.6180339 = 2654435915 = 0x9E377A4B
MulA == <<40503, 31307>>

\* Word size W = sizeof(uint32_t) * 8
W == 32

\* rand() % P in a table: the draws range over the MaxRand + 1 largest
\* values of [0, P)
MaxRand == 0

\* rand() % P, the draws ranging over the max + 1 largest values of [0, P)
Rand(P, max) == (IF P - 1 - max < 0 THEN 0 ELSE P - 1 - max)..(P - 1)

\* the loop of MultiplicationHashFunction::OnHashSizeChange: R with 2^R <= m < 2^(R+1)
RECURSIVE BitWidth(_)
BitWidth(m) == IF m \div 2 = 0 THEN 0 ELSE 1 + BitWidth(m \div 2)

RECURSIVE is_prime_loop(_, _, _, _)
is_prime_loop(n, i, i_sq, i_sq_step) ==
  IF i_sq <= n
    THEN IF n % i = 0 \/ n % (i + 2) = 0
           THEN FALSE
           ELSE is_prime_loop(n, i + 6, i_sq + i_sq_step, i_sq_step + 72)
    ELSE TRUE

is_prime(n) ==
  IF n % 2 = 0 \/ n % 3 = 0 THEN FALSE ELSE is_prime_loop(n, 5, 25, 96)

RECURSIVE least_prime_larger_than(_)
least_prime_larger_than(n) ==
  IF is_prime(n + 1) THEN n + 1 ELSE least_prime_larger_than(n + 1)

\* u >> s for 0 < s < 32
U32Shr(u, s) ==
  IF s >= 16 THEN u[1] \div (2^(s - 16))
  ELSE u[1] * 2^(16 - s) + u[2] \div (2^s)

DivisionHash(hf, key) == U32Mod(key, hf.M)

\* one bit too many kept
MultiplicationHashWide(hf, key) == U32Shr(U32Mul(MulA, key), W - hf.R - 1)

MultiplicationHash(hf, key) == U32Shr(U32Mul(MulA, key), W - hf.R)

UniversalHash(hf, key) ==
  U32Mod(U32Add(U32Mul(U32(hf.A), key), U32(hf.B)), hf.P) % hf.M

\* HashFunction::operator()
Hash(hf, key) ==
  CASE hf.kind = "division"       -> DivisionHash(hf, key)
    [] hf.kind = "multiplication" -> MultiplicationHash(hf, key)
    [] hf.kind = "universal"      -> UniversalHash(hf, key)

\* HashFunctionBase::UpdateHashSize, with the OnHashSizeChange of each kind:
\* the set of objects it can leave (universal hashing draws A and B)
UpdateHashSizeRand(hf, m, max) ==
  CASE hf.kind = "division" ->
         {[hf EXCEPT !.M = m]}
    [] hf.kind = "multiplication" ->
         {[hf EXCEPT !.M = m, !.R = BitWidth(m)]}
    [] hf.kind = "universal" ->
         LET p == least_prime_larger_than(m)
         IN  {[hf EXCEPT !.M = m, !.P = p, !.A = a, !.B = b] :
                a \in Rand(p, max), b \in Rand(p, max)}

UpdateHashSize(hf, m) == UpdateHashSizeRand(hf, m, MaxRand)

\* the constructors DivisionHashFunction(m), MultiplicationHashFunction(m),
\* UniversalHashFunction(m)
NewHashFunction(kind, m) ==
  UpdateHashSize([kind |-> kind, M |-> m, R |-> 0, P |-> 0, A |-> 0, B |-> 0], m)

HashKinds == {"division", "multiplication", "universal"}

----------------------------------------------------------------------------
(* Probing hash functions: [kind, M, hFunc1, hFunc2]; linear probing has   *)
(* the one function hFunc, kept in hFunc1, and hFunc2 repeats it.  A hash  *)
(* value is below 2^16 and a trial number below M <= 2^8 here, so the sums *)
(* and products below stay under 2^32 and are the uint32_t ones.           *)

\* the step left as it is
OddifyNot(val) == val

Oddify(val) == IF val % 2 = 0 THEN val + 1 ELSE val

\* linear probing with a step of 2
LinearProbeSkip(prh, key, trial_no) ==
  (Hash(prh.hFunc1, key) + 2 * trial_no) % prh.M

LinearProbe(prh, key, trial_no) ==
  (Hash(prh.hFunc1, key) + trial_no) % prh.M

DoubleProbe(prh, key, trial_no) ==
  (Hash(prh.hFunc1, key) + trial_no * Oddify(Hash(prh.hFunc2, key))) % prh.M

\* ProbingHashFunction::operator()
Probe(prh, key, trial_no) ==
  IF prh.kind = "linear" THEN LinearProbe(prh, key, trial_no)
  ELSE DoubleProbe(prh, key, trial_no)

\* UpdateHashSize on a probing function whose OnHashSizeChange hands the
\* size to its first hash function only
UpdateProbeSizeFirstOnly(prh, m) ==
  IF prh.kind = "linear"
    THEN {[prh EXCEPT !.M = m, !.hFunc1 = h, !.hFunc2 = h] :
            h \in UpdateHashSize(prh.hFunc1, m)}
    ELSE {[prh EXCEPT !.M = m, !.hFunc1 = h1] :
            h1 \in UpdateHashSize(prh.hFunc1, m)}

\* UpdateHashSize on a probing function: M = m, then OnHashSizeChange hands
\* the size to the underlying function(s)
UpdateProbeSize(prh, m) ==
  IF prh.kind = "linear"
    THEN {[prh EXCEPT !.M = m, !.hFunc1 = h, !.hFunc2 = h] :
            h \in UpdateHashSize(prh.hFunc1, m)}
    ELSE {[prh EXCEPT !.M = m, !.hFunc1 = h1, !.hFunc2 = h2] :
            h1 \in UpdateHashSize(prh.hFunc1, m),
            h2 \in UpdateHashSize(prh.hFunc2, m)}

----------------------------------------------------------------------------
(* Hashing with open addressing (part_006).  A table is the record         *)
(* [length, num_entries, hashTable, prHashFunc]; hashTable maps            *)
(* 0..length-1 to uint32_t values.  A call in progress is a record         *)
(* [t, hung, rehashes]: the table, whether the call is spinning in a probe *)
(* loop that cannot end, and the number of rehash calls made so far.       *)

FREE_MARKER == UINT32_MAX

DEL_MARKER == U32Dec(UINT32_MAX)

INVALID_KEY == FREE_MARKER

MIN_LENGTH == 8

new_hash_table(length) == [i \in 0..(length - 1) |-> FREE_MARKER]

\* load_factor() >= 0.5 and load_factor() <= 0.125, on the exact quotient
\* num_entries / length (length <= 2^15)
\* load_factor() > 0.5 in place of >= 0.5
LoadAboveHalf(t) == t.num_entries[1] > 0 \/ 2 * t.num_entries[2] > t.length

LoadAtLeastHalf(t) == t.num_entries[1] > 0 \/ 2 * t.num_entries[2] >= t.length

\* load_factor() <= 0.5 in place of <= 0.125
LoadAtMostHalf(t) == t.num_entries[1] = 0 /\ 2 * t.num_entries[2] <= t.length

LoadAtMostEighth(t) == t.num_entries[1] = 0 /\ 8 * t.num_entries[2] <= t.length

\* find_index giving up at a tombstone as at a free slot
RECURSIVE find_index_loop_tombstone_ends(_, _, _)
find_index_loop_tombstone_ends(t, key, probe) ==
  LET index == Probe(t.prHashFunc, key, probe)
  IN  IF t.hashTable[index] = key THEN index
      ELSE IF t.hashTable[index] # FREE_MARKER /\ t.hashTable[index] # DEL_MARKER
                /\ probe + 1 < t.length
             THEN find_index_loop_tombstone_ends(t, key, probe + 1)
             ELSE t.length

RECURSIVE find_index_loop(_, _, _)
find_index_loop(t, key, probe) ==
  LET index == Probe(t.prHashFunc, key, probe)
  IN  IF t.hashTable[index] = key THEN index
      ELSE IF t.hashTable[index] # FREE_MARKER /\ probe + 1 < t.length
             THEN find_index_loop(t, key, probe + 1)
             ELSE t.length

find_index(t, key) == find_index_loop(t, key, 0)

find(t, key) ==
  LET index == find_index(t, key)
  IN  IF index < t.length THEN t.hashTable[index] ELSE INVALID_KEY

RECURSIVE insert_loop(_, _, _)

\* the probe loop of an insert that takes the first slot that is free or a
\* tombstone
insert_loop_first_tombstone(c, key, probe) ==
  LET t == c.t
      index == Probe(t.prHashFunc, key, probe)
  IN  IF t.hashTable[index] = key THEN c
      ELSE IF t.hashTable[index] # FREE_MARKER /\ t.hashTable[index] # DEL_MARKER
             THEN IF probe + 1 < t.length
                    THEN insert_loop(c, key, probe + 1)
                    ELSE [c EXCEPT !.hung = TRUE]
             ELSE [c EXCEPT !.t.hashTable[index] = key,
                            !.t.num_entries = U32Inc(t.num_entries)]

\* The probe loop of insert.  The loop has no bound of its own; the probe
\* sequence has period M, so a loop that met neither the key nor a free slot
\* in M trials never ends: the call hangs.
insert_loop(c, key, probe) ==
  LET t == c.t
      index == Probe(t.prHashFunc, key, probe)
  IN  IF t.hashTable[index] = key THEN c
      ELSE IF t.hashTable[index] # FREE_MARKER
             THEN IF probe + 1 < t.length
                    THEN insert_loop(c, key, probe + 1)
                    ELSE [c EXCEPT !.hung = TRUE]
             ELSE [c EXCEPT !.t.hashTable[index] = key,
                            !.t.num_entries = U32Inc(t.num_entries)]

RECURSIVE insert(_, _)
RECURSIVE rehash(_, _)
RECURSIVE rehash_loop(_, _, _)

\* rehash that leaves num_entries as it was
rehash_keeps_count(c, new_length) ==
  rehash_loop(
    {[c EXCEPT !.t = [length      |-> new_length,
                      num_entries |-> c.t.num_entries,
                      hashTable   |-> new_hash_table(new_length),
                      prHashFunc  |-> p],
               !.rehashes = c.rehashes + 1] :
       p \in UpdateProbeSize(c.t.prHashFunc, new_length)},
    c.t, 0)

\* HashTable::insert: the calls it can end as
insert(c, key) ==
  LET grown == IF LoadAtLeastHalf(c.t) THEN rehash(c, 2 * c.t.length) ELSE {c}
  IN  {IF g.hung THEN g ELSE insert_loop(g, key, 0) : g \in grown}

\* the re-insertion loop of rehash, from slot i of the old table on
rehash_loop(cs, old, i) ==
  IF i >= old.length THEN cs
  ELSE LET key == old.hashTable[i]
       IN  IF key # FREE_MARKER /\ key # DEL_MARKER
             THEN rehash_loop(
                    UNION {IF c.hung THEN {c} ELSE insert(c, key) : c \in cs},
                    old, i + 1)
             ELSE rehash_loop(cs, old, i + 1)

\* rehash whose re-insertion loop starts at slot 1
rehash_from_one(c, new_length) ==
  rehash_loop(
    {[c EXCEPT !.t = [length      |-> new_length,
                      num_entries |-> U32(0),
                      hashTable   |-> new_hash_table(new_length),
                      prHashFunc  |-> p],
               !.rehashes = c.rehashes + 1] :
       p \in UpdateProbeSize(c.t.prHashFunc, new_length)},
    c.t, 1)

\* HashTable::rehash
rehash(c, new_length) ==
  rehash_loop(
    {[c EXCEPT !.t = [length      |-> new_length,
                      num_entries |-> U32(0),
                      hashTable   |-> new_hash_table(new_length),
                      prHashFunc  |-> p],
               !.rehashes = c.rehashes + 1] :
       p \in UpdateProbeSize(c.t.prHashFunc, new_length)},
    c.t, 0)

\* remove that decrements num_entries but leaves the key in its slot
remove_unmarked(c, key) ==
  LET index == find_index(c.t, key)
      d == [c EXCEPT !.t.num_entries = U32Dec(c.t.num_entries)]
  IN  IF index >= c.t.length THEN {c}
      ELSE IF d.t.length \div 4 >= MIN_LENGTH /\ LoadAtMostEighth(d.t)
             THEN rehash(d, d.t.length \div 4)
             ELSE {d}

\* remove that shrinks without the length / 4 >= MIN_LENGTH test
remove_no_floor(c, key) ==
  LET index == find_index(c.t, key)
      d == [c EXCEPT !.t.hashTable[index] = DEL_MARKER,
                     !.t.num_entries = U32Dec(c.t.num_entries)]
  IN  IF index >= c.t.length THEN {c}
      ELSE IF d.t.length \div 4 >= 1 /\ LoadAtMostEighth(d.t)
             THEN rehash(d, d.t.length \div 4)
             ELSE {d}

\* remove that gives the slot back as FREE_MARKER
remove_frees(c, key) ==
  LET index == find_index(c.t, key)
      d == [c EXCEPT !.t.hashTable[index] = FREE_MARKER,
                     !.t.num_entries = U32Dec(c.t.num_entries)]
  IN  IF index >= c.t.length THEN {c}
      ELSE IF d.t.length \div 4 >= MIN_LENGTH /\ LoadAtMostEighth(d.t)
             THEN rehash(d, d.t.length \div 4)
             ELSE {d}

\* HashTable::remove
remove(c, key) ==
  LET index == find_index(c.t, key)
      d == [c EXCEPT !.t.hashTable[index] = DEL_MARKER,
                     !.t.num_entries = U32Dec(c.t.num_entries)]
  IN  IF index >= c.t.length THEN {c}
      ELSE IF d.t.length \div 4 >= MIN_LENGTH /\ LoadAtMostEighth(d.t)
             THEN rehash(d, d.t.length \div 4)
             ELSE {d}

Call(t) == [t |-> t, hung |-> FALSE, rehashes |-> 0]

\* HashTable::HashTable(prh)
NewOpenTable(prh) ==
  {[length      |-> MIN_LENGTH,
    num_entries |-> U32(0),
    hashTable   |-> new_hash_table(MIN_LENGTH),
    prHashFunc  |-> p] : p \in UpdateProbeSize(prh, MIN_LENGTH)}

\* main(): N, the size the strategy objects are constructed with before a
\* table is built on them (1000000 in main(), bounded here)
N == 1000

\* RUN_HASH_TEST(HF, PHF, nums, N): HF hf(N); PHF phf(N, hf)
NewLinearProbing(kind) ==
  UNION {UpdateProbeSize([kind |-> "linear", M |-> N, hFunc1 |-> hf, hFunc2 |-> hf], N) :
           hf \in NewHashFunction(kind, N)}

\* RUN_HASH_TEST2(HF1, HF2, PHF, nums, N): HF1 hf1(N); HF1 hf2(N); PHF phf(N, hf1, hf2)
NewDoubleHashing(kind1) ==
  UNION {UpdateProbeSize([kind |-> "double", M |-> N, hFunc1 |-> hf1, hFunc2 |-> hf2], N) :
           hf1 \in NewHashFunction(kind1, N), hf2 \in NewHashFunction(kind1, N)}

\* the four tables main() runs its test on
OpenStrategies ==
  NewLinearProbing("division") \cup NewLinearProbing("multiplication")
    \cup NewLinearProbing("universal") \cup NewDoubleHashing("universal")

----------------------------------------------------------------------------
(* Hashing with chaining and table doubling                                *)
(* (m6006_09_01_table_doubling.cpp).  A table is the record                *)
(* [length, num_entries, hashTable, hashFunc]; hashTable maps 0..length-1  *)
(* to the sequence of keys of a chain.  A call in progress is [t, rehashes].*)

\* the internal find(chain, key): the position of the first element equal to
\* key, Len(ch) + 1 for chain.end()
RECURSIVE chain_find_from(_, _, _)
chain_find_from(ch, key, p) ==
  IF p > Len(ch) THEN p
  ELSE IF ch[p] = key THEN p ELSE chain_find_from(ch, key, p + 1)

chain_find_itr(ch, key) == chain_find_from(ch, key, 1)

\* every element equal to *itr erased, as chain.remove(key) would
chain_erase_equal(ch, p) == SelectSeq(ch, LAMBDA x : x # ch[p])

\* nothing erased
chain_erase_nothing(ch, p) == ch

\* chain.erase(itr)
chain_erase(ch, p) == SubSeq(ch, 1, p - 1) \o SubSeq(ch, p + 1, Len(ch))

\* HashTable::find
chain_find(t, key) ==
  LET ch == t.hashTable[Hash(t.hashFunc, key)]
      itr == chain_find_itr(ch, key)
  IN  IF itr > Len(ch) THEN INVALID_KEY ELSE ch[itr]

\* itr != chain.end() in the chain of key
chain_holds(t, key) ==
  LET ch == t.hashTable[Hash(t.hashFunc, key)]
  IN  chain_find_itr(ch, key) <= Len(ch)

RECURSIVE chain_insert(_, _)
RECURSIVE chain_rehash(_, _)
RECURSIVE chain_rehash_loop(_, _, _, _)

\* insert that grows when the key it is about to add fills the table
chain_insert_early(c, key) ==
  LET grown == IF U32(c.t.length) = U32Inc(c.t.num_entries)
                 THEN chain_rehash(c, 2 * c.t.length) ELSE {c}
  IN  {[g EXCEPT !.t.hashTable[Hash(g.t.hashFunc, key)] = Append(@, key),
                 !.t.num_entries = U32Inc(g.t.num_entries)] : g \in grown}

\* HashTable::insert: the calls it can end as
chain_insert(c, key) ==
  LET grown == IF U32(c.t.length) = c.t.num_entries
                 THEN chain_rehash(c, 2 * c.t.length) ELSE {c}
  IN  {[g EXCEPT !.t.hashTable[Hash(g.t.hashFunc, key)] = Append(@, key),
                 !.t.num_entries = U32Inc(g.t.num_entries)] : g \in grown}

\* the re-insertion loops of rehash, from element p of chain i of the old table on
chain_rehash_loop(cs, old, i, p) ==
  IF i >= old.length THEN cs
  ELSE IF p > Len(old.hashTable[i]) THEN chain_rehash_loop(cs, old, i + 1, 1)
  ELSE chain_rehash_loop(
         UNION {chain_insert(c, old.hashTable[i][p]) : c \in cs}, old, i, p + 1)

\* rehash that adjusts the hash function after the re-insertion loops
chain_rehash_update_last(c, new_length) ==
  {[r EXCEPT !.t.hashFunc = h] :
     h \in UpdateHashSize(c.t.hashFunc, new_length),
     r \in chain_rehash_loop(
             {[c EXCEPT !.t = [length      |-> new_length,
                               num_entries |-> U32(0),
                               hashTable   |-> [i \in 0..(new_length - 1) |-> <<>>],
                               hashFunc    |-> c.t.hashFunc],
                        !.rehashes = c.rehashes + 1]},
             c.t, 0, 1)}

\* HashTable::rehash
chain_rehash(c, new_length) ==
  chain_rehash_loop(
    {[c EXCEPT !.t = [length      |-> new_length,
                      num_entries |-> U32(0),
                      hashTable   |-> [i \in 0..(new_length - 1) |-> <<>>],
                      hashFunc    |-> h],
               !.rehashes = c.rehashes + 1] :
       h \in UpdateHashSize(c.t.hashFunc, new_length)},
    c.t, 0, 1)

\* remove that shrinks only while length / 2 stays above MIN_LENGTH
chain_remove_floor_above(c, key) ==
  LET hkey == Hash(c.t.hashFunc, key)
      ch == c.t.hashTable[hkey]
      itr == chain_find_itr(ch, key)
      d == [c EXCEPT !.t.hashTable[hkey] =
                       IF itr > Len(ch) THEN ch ELSE chain_erase(ch, itr),
                     !.t.num_entries = U32Dec(c.t.num_entries)]
  IN  IF d.t.length \div 2 > MIN_LENGTH /\ U32Le(d.t.num_entries, U32(d.t.length \div 4))
        THEN chain_rehash(d, d.t.length \div 2)
        ELSE {d}

\* HashTable::remove
chain_remove(c, key) ==
  LET hkey == Hash(c.t.hashFunc, key)
      ch == c.t.hashTable[hkey]
      itr == chain_find_itr(ch, key)
      d == [c EXCEPT !.t.hashTable[hkey] =
                       IF itr > Len(ch) THEN ch ELSE chain_erase(ch, itr),
                     !.t.num_entries = U32Dec(c.t.num_entries)]
  IN  IF d.t.length > MIN_LENGTH /\ U32Le(d.t.num_entries, U32(d.t.length \div 4))
        THEN chain_rehash(d, d.t.length \div 2)
        ELSE {d}

ChainCall(t) == [t |-> t, rehashes |-> 0]

\* HashTable<HASHFUNC>::HashTable()
NewChainTable(kind) ==
  {[length      |-> MIN_LENGTH,
    num_entries |-> U32(0),
    hashTable   |-> [i \in 0..(MIN_LENGTH - 1) |-> <<>>],
    hashFunc    |-> h] : h \in NewHashFunction(kind, MIN_LENGTH)}

----------------------------------------------------------------------------
(* The calls made on a table.  As run_test does, a client inserts the keys *)
(* nums[0], nums[1], ... in index order and removes them in index order;   *)
(* unlike run_test it may start removing before it has inserted them all,  *)
(* and at any point it may insert or remove a key that is not in nums.     *)

\* the number of keys of nums
MaxNums == 9

\* the number of calls with a key that is not in nums
MaxFreeCalls == 2

\* the same, for the chaining table
MaxChainFreeCalls == 5

\* a table is not grown past MIN_LENGTH * 2^MaxDoublings
MaxDoublings == 2

\* nums[i]: 5, 13, 21, 29, ... (the keys of the linear-probing scenario first)
nums(i) == U32(5 + 8 * i)

\* the keys not in nums the client uses: 0xFFFFFFFD, the largest key below
\* the markers
FreeKeys == {U32Dec(DEL_MARKER)}

ReservedKeys == {DEL_MARKER, FREE_MARKER}

MaxLength == MIN_LENGTH * 2^MaxDoublings

----------------------------------------------------------------------------
(* The open-addressing program.  onums = [i, j]: nums[0..i-1] have been    *)
(* inserted, nums[0..j-1] removed, and free calls had a key not in nums.   *)
(* olive is the set of keys whose most recent completed call was insert.   *)
(* olast tells of the most recent call how many rehash calls it made and   *)
(* whether it returned.  ostreak counts the most recent consecutive calls  *)
(* that each changed the table length (up to 3).                           *)

NoTable == [length |-> 0]

NoNums == [i |-> 0, j |-> 0, free |-> 0]

NoCall == [rehashes |-> 0, returned |-> TRUE]

Streak(n, old, new) == IF old.length # new.length THEN (IF n < 3 THEN n + 1 ELSE 3) ELSE 0

OpenIdle ==
  /\ open = NoTable /\ onums = NoNums /\ olive = {} /\ olast = NoCall /\ ostreak = 0

ChainIdle ==
  /\ chain = NoTable /\ cnums = NoNums /\ clive = <<>> /\ cphase = <<>>
  /\ clast = NoCall /\ cstreak = 0

FnIdle == fn = <<>>

OpenInit ==
  /\ prog = "open"
  /\ open \in UNION {NewOpenTable(prh) : prh \in OpenStrategies}
  /\ onums = NoNums /\ olive = {} /\ olast = NoCall /\ ostreak = 0
  /\ ChainIdle /\ FnIdle

\* ht.insert(key)
OInsertKey(key) ==
  /\ prog = "open" /\ olast.returned
  /\ ~(LoadAtLeastHalf(open) /\ 2 * open.length > MaxLength)
  /\ \E c \in insert(Call(open), key) :
       /\ open' = c.t
       /\ olast' = [rehashes |-> c.rehashes, returned |-> ~c.hung]
       /\ olive' = IF c.hung THEN olive ELSE olive \cup {key}
       /\ ostreak' = Streak(ostreak, open, c.t)
  /\ UNCHANGED <<prog, chainVars, fn>>

\* ht.remove(key)
ORemoveKey(key) ==
  /\ prog = "open" /\ olast.returned
  /\ \E c \in remove(Call(open), key) :
       /\ open' = c.t
       /\ olast' = [rehashes |-> c.rehashes, returned |-> ~c.hung]
       /\ olive' = IF c.hung THEN olive ELSE olive \ {key}
       /\ ostreak' = Streak(ostreak, open, c.t)
  /\ UNCHANGED <<prog, chainVars, fn>>

\* run_test: ht.insert(nums[i])
OInsertNum ==
  /\ onums.i < MaxNums
  /\ OInsertKey(nums(onums.i))
  /\ onums' = [onums EXCEPT !.i = @ + 1]

\* run_test: ht.remove(nums[i])
ORemoveNum ==
  /\ onums.j < onums.i
  /\ ORemoveKey(nums(onums.j))
  /\ onums' = [onums EXCEPT !.j = @ + 1]

OInsert(key) ==
  /\ onums.free < MaxFreeCalls
  /\ OInsertKey(key)
  /\ onums' = [onums EXCEPT !.free = @ + 1]

ORemove(key) ==
  /\ onums.free < MaxFreeCalls
  /\ ORemoveKey(key)
  /\ onums' = [onums EXCEPT !.free = @ + 1]

OpenNext ==
  \/ OInsertNum
  \/ ORemoveNum
  \/ \E key \in FreeKeys : OInsert(key)
  \/ \E key \in FreeKeys : ORemove(key)

SpecOpen == OpenInit /\ [][OpenNext]_vars

\* the same client, also calling with the two marker values as keys
OpenNextAll ==
  \/ OpenNext
  \/ \E key \in ReservedKeys : OInsert(key)
  \/ \E key \in ReservedKeys : ORemove(key)

SpecOpenAll == OpenInit /\ [][OpenNextAll]_vars

----------------------------------------------------------------------------
(* The chaining program.  cnums is as onums.  clive[key] is the number of  *)
(* insert calls of key minus the number of remove calls that found it.     *)
(* cphase[key], for a key not in nums, is "new" before any call with it,   *)
(* "ins" once it has been inserted and never removed, "rem1" when it was   *)
(* then removed exactly once and not inserted again, "other" otherwise.    *)

ChainKeys == {nums(i) : i \in 0..(MaxNums - 1)} \cup FreeKeys \cup {INVALID_KEY}

ChainInit ==
  /\ prog = "chain"
  /\ chain \in UNION {NewChainTable(kind) : kind \in HashKinds}
  /\ cnums = NoNums
  /\ clive = [key \in ChainKeys |-> 0]
  /\ cphase = [key \in FreeKeys \cup {INVALID_KEY} |-> "new"]
  /\ clast = NoCall /\ cstreak = 0
  /\ OpenIdle /\ FnIdle

\* ht.insert(key)
CInsertKey(key) ==
  /\ prog = "chain"
  /\ ~(U32(chain.length) = chain.num_entries /\ 2 * chain.length > MaxLength)
  /\ \E c \in chain_insert(ChainCall(chain), key) :
       /\ chain' = c.t
       /\ clast' = [rehashes |-> c.rehashes, returned |-> TRUE]
       /\ cstreak' = Streak(cstreak, chain, c.t)
  /\ clive' = [clive EXCEPT ![key] = @ + 1]
  /\ UNCHANGED <<prog, openVars, fn>>

\* ht.remove(key)
CRemoveKey(key) ==
  /\ prog = "chain"
  /\ \E c \in chain_remove(ChainCall(chain), key) :
       /\ chain' = c.t
       /\ clast' = [rehashes |-> c.rehashes, returned |-> TRUE]
       /\ cstreak' = Streak(cstreak, chain, c.t)
  /\ clive' = [clive EXCEPT ![key] = IF chain_holds(chain, key) THEN @ - 1 ELSE @]
  /\ UNCHANGED <<prog, openVars, fn>>

\* run_test: ht.insert(nums[i])
CInsertNum ==
  /\ cnums.i < MaxNums
  /\ CInsertKey(nums(cnums.i))
  /\ cnums' = [cnums EXCEPT !.i = @ + 1]
  /\ UNCHANGED cphase

\* run_test: ht.remove(nums[i])
CRemoveNum ==
  /\ cnums.j < cnums.i
  /\ CRemoveKey(nums(cnums.j))
  /\ cnums' = [cnums EXCEPT !.j = @ + 1]
  /\ UNCHANGED cphase

CInsert(key) ==
  /\ cnums.free < MaxChainFreeCalls
  /\ CInsertKey(key)
  /\ cnums' = [cnums EXCEPT !.free = @ + 1]
  /\ cphase' = [cphase EXCEPT ![key] = IF @ \in {"new", "ins"} THEN "ins" ELSE "other"]

CRemove(key) ==
  /\ cnums.free < MaxChainFreeCalls
  /\ CRemoveKey(key)
  /\ cnums' = [cnums EXCEPT !.free = @ + 1]
  /\ cphase' = [cphase EXCEPT ![key] = IF @ = "ins" THEN "rem1" ELSE "other"]

ChainNext ==
  \/ CInsertNum
  \/ CRemoveNum
  \/ \E key \in FreeKeys : CInsert(key)
  \/ \E key \in FreeKeys : CRemove(key)

SpecChain == ChainInit /\ [][ChainNext]_vars

\* the same client, also calling with INVALID_KEY as key
ChainNextAll ==
  \/ ChainNext
  \/ CInsert(INVALID_KEY)
  \/ CRemove(INVALID_KEY)

SpecChainAll == ChainInit /\ [][ChainNextAll]_vars

\* either program
TablesInit == OpenInit \/ ChainInit

Next == OpenNext \/ ChainNext

Spec == TablesInit /\ [][Next]_vars

----------------------------------------------------------------------------
(* The function families on their own.  fn.mode = "hash": a hash function  *)
(* object fn.hf, a key, and fn.out, the index the last evaluation returned *)
(* (-1 before one).  fn.mode = "probe": a probing function object fn.prh,  *)
(* a key, and fn.seen, the indices returned for trial_no = 0, 1, ...       *)

\* the table lengths a table passes to its strategy
Lengths == {MIN_LENGTH * 2^d : d \in 0..MaxDoublings}

\* universal hashing on its own: every draw of [0, P) up to P = MaxFnRand + 1
MaxFnRand == 40

FnKeys == {U32(0), U32(5), U32(13), U32(65536), <<32767, 65535>>, <<32768, 0>>,
           U32Dec(DEL_MARKER), DEL_MARKER, FREE_MARKER}

FnHashFunctions(m) ==
  UNION {UNION {UpdateHashSizeRand(hf, m, MaxFnRand) : hf \in NewHashFunction(kind, N)} :
           kind \in HashKinds}

FnProbingFunctions(m) ==
  UNION {UpdateProbeSize(prh, m) :
           prh \in UNION {NewLinearProbing(kind) : kind \in HashKinds}
                     \cup UNION {UpdateProbeSize([kind |-> "double", M |-> N,
                                                  hFunc1 |-> hf1, hFunc2 |-> hf2], N) :
                                   hf1 \in UNION {NewHashFunction(kind, N) : kind \in HashKinds},
                                   hf2 \in UNION {NewHashFunction(kind, N) : kind \in HashKinds}}}

FnInit ==
  /\ prog = "fn"
  /\ \/ \E m \in Lengths : \E hf \in FnHashFunctions(m), key \in FnKeys :
          fn = [mode |-> "hash", hf |-> hf, key |-> key, out |-> -1]
     \/ \E m \in Lengths : \E prh \in FnProbingFunctions(m), key \in FnKeys :
          fn = [mode |-> "probe", prh |-> prh, key |-> key, seen |-> <<>>]
  /\ OpenIdle /\ ChainIdle

\* hf(key)
FnHash ==
  /\ prog = "fn" /\ fn.mode = "hash" /\ fn.out = -1
  /\ fn' = [fn EXCEPT !.out = Hash(fn.hf, fn.key)]
  /\ UNCHANGED <<prog, openVars, chainVars>>

\* hf.UpdateHashSize(m)
FnUpdateHashSize ==
  /\ prog = "fn" /\ fn.mode = "hash" /\ fn.out # -1
  /\ \E m \in Lengths : \E hf \in UpdateHashSize(fn.hf, m) :
       fn' = [fn EXCEPT !.hf = hf, !.out = -1]
  /\ UNCHANGED <<prog, openVars, chainVars>>

\* prh(key, trial_no) for the next trial_no
FnProbe ==
  /\ prog = "fn" /\ fn.mode = "probe" /\ Len(fn.seen) < fn.prh.M
  /\ fn' = [fn EXCEPT !.seen = Append(@, Probe(fn.prh, fn.key, Len(fn.seen)))]
  /\ UNCHANGED <<prog, openVars, chainVars>>

\* prh.UpdateHashSize(m)
FnUpdateProbeSize ==
  /\ prog = "fn" /\ fn.mode = "probe" /\ Len(fn.seen) = fn.prh.M
  /\ \E m \in Lengths : \E prh \in UpdateProbeSize(fn.prh, m) :
       fn' = [fn EXCEPT !.prh = prh, !.seen = <<>>]
  /\ UNCHANGED <<prog, openVars, chainVars>>

FnNext == FnHash \/ FnUpdateHashSize \/ FnProbe \/ FnUpdateProbeSize

SpecFn == FnInit /\ [][FnNext]_vars

----------------------------------------------------------------------------
(* The universal hash function on its own, for every table size from 1 on. *)
(* fn.mode = "universal": a UniversalHashFunction object fn.hf.            *)

\* the largest size given to the function
MaxSize == 40

\* the draws of A and B range over the MaxUniRand + 1 largest values of [0, P)
MaxUniRand == 2

\* UniversalHashFunction(m)
NewUniversalHashFunction(m) ==
  UpdateHashSizeRand([kind |-> "universal", M |-> m, R |-> 0, P |-> 0, A |-> 0, B |-> 0],
                     m, MaxUniRand)

UniversalInit ==
  /\ prog = "universal"
  /\ \E m \in 1..MaxSize : \E hf \in NewUniversalHashFunction(m) :
       fn = [mode |-> "universal", hf |-> hf]
  /\ OpenIdle /\ ChainIdle

\* hf.UpdateHashSize(m)
UniversalUpdateHashSize ==
  /\ prog = "universal"
  /\ \E m \in 1..MaxSize : \E hf \in UpdateHashSizeRand(fn.hf, m, MaxUniRand) :
       fn' = [fn EXCEPT !.hf = hf]
  /\ UNCHANGED <<prog, openVars, chainVars>>

SpecUniversal == UniversalInit /\ [][UniversalUpdateHashSize]_vars

----------------------------------------------------------------------------
(* Properties *)

NumsKeys == {nums(i) : i \in 0..(MaxNums - 1)}

RECURSIVE IsPowerOfTwo(_)
IsPowerOfTwo(n) == n = 1 \/ (n > 1 /\ n % 2 = 0 /\ IsPowerOfTwo(n \div 2))

Tombstones(t) == {i \in 0..(t.length - 1) : t.hashTable[i] = DEL_MARKER}

\* C1: in the open-addressing table, after any sequence of insert and remove
\* calls with keys below 0xFFFFFFFE, find(k) returns k for every key k whose
\* most recent call was insert(k).
OpenRoundTrip ==
  prog = "open" => \A k \in olive : find(open, k) = k

\* a table that grew to 32 and has just been rebuilt back to 8, with keys of
\* nums removed before that, still finds the four keys left in it
OpenRoundTripWitness ==
  /\ prog = "open" /\ olast.returned /\ olast.rehashes = 1
  /\ open.length = MIN_LENGTH /\ onums.i = MaxNums /\ onums.j >= 5
  /\ Cardinality(olive) >= 4
  /\ \A k \in olive : find(open, k) = k

\* C2: in the chaining table, after any sequence of insert and remove calls,
\* removes of absent keys included, find(k) returns k for every key k inserted
\* more times than it has been removed with success.
ChainRoundTrip ==
  prog = "chain" =>
    \A k \in ChainKeys \ {INVALID_KEY} : clive[k] > 0 => chain_find(chain, k) = k

\* a key not in nums was removed while absent, the table grew, lost keys of
\* nums, has just been rebuilt back to 8, and finds the keys it holds
ChainRoundTripWitness ==
  /\ prog = "chain" /\ clast.rehashes >= 1 /\ chain.length = MIN_LENGTH
  /\ cnums.j >= 5 /\ cnums.free >= 1
  /\ \E k \in FreeKeys : cphase[k] = "other" /\ clive[k] = 0
  /\ \E k \in NumsKeys : clive[k] > 0 /\ chain_find(chain, k) = k

\* C3: every insert call on the open-addressing table returns: its probe loop
\* meets the key or a free slot within M trials.
OpenInsertReturns ==
  prog = "open" => olast.returned

ChainAbsentAfterOneRemove ==
  prog = "chain" =>
    \A k \in FreeKeys : cphase[k] = "rem1" => chain_find(chain, k) = INVALID_KEY

\* C5 as amended: in the chaining table a key that was inserted, then removed
\* as many times as it had been inserted (exactly once for a key inserted
\* once) and not inserted again is reported absent.
ChainAbsentAfterRemove ==
  prog = "chain" =>
    \A k \in ChainKeys \ {INVALID_KEY} :
      clive[k] = 0 => chain_find(chain, k) = INVALID_KEY

\* a key not in nums inserted once and removed once, and removed keys of nums,
\* are reported absent while other keys are held
ChainAbsentAfterRemoveWitness ==
  /\ prog = "chain" /\ cnums.j >= 1 /\ cnums.i > cnums.j
  /\ \E k \in FreeKeys :
       cphase[k] = "rem1" /\ clive[k] = 0 /\ chain_find(chain, k) = INVALID_KEY
  /\ chain_find(chain, nums(0)) = INVALID_KEY

\* C6: for every table length M and every key, a probing function (linear
\* probing, double hashing, over any of the hash functions) returns each index
\* of 0..M-1 exactly once as trial_no ranges over 0..M-1.
ProbePermutation ==
  (prog = "fn" /\ fn.mode = "probe") =>
    /\ \A i \in 1..Len(fn.seen) : fn.seen[i] \in 0..(fn.prh.M - 1)
    /\ \A i, j \in 1..Len(fn.seen) : i # j => fn.seen[i] # fn.seen[j]
    /\ Len(fn.seen) = fn.prh.M => {fn.seen[i] : i \in 1..Len(fn.seen)} = 0..(fn.prh.M - 1)

\* double hashing with a step other than 1 has been evaluated for all M trials
ProbePermutationWitness ==
  /\ prog = "fn" /\ fn.mode = "probe" /\ fn.prh.kind = "double"
  /\ fn.prh.M > MIN_LENGTH /\ Len(fn.seen) = fn.prh.M
  /\ Hash(fn.prh.hFunc2, fn.key) > 1
  /\ Hash(fn.prh.hFunc2, fn.key) % 2 = 0

\* C7: for every table length M and every 32-bit key, DivisionHashFunction,
\* MultiplicationHashFunction and UniversalHashFunction return an index of
\* 0..M-1, A * key and A * key + B being computed modulo 2^32.
HashRange ==
  (prog = "fn" /\ fn.mode = "hash" /\ fn.out # -1) => fn.out \in 0..(fn.hf.M - 1)

\* universal hashing of the key 0xFFFFFFFF with A > 1, where A * key wraps
HashRangeWitness ==
  /\ prog = "fn" /\ fn.mode = "hash" /\ fn.out # -1
  /\ fn.hf.kind = "universal" /\ fn.hf.A > 1 /\ fn.key = UINT32_MAX
  /\ fn.out \in 0..(fn.hf.M - 1)

\* C8: in the open-addressing table, after every completed insert or remove
\* with keys below 0xFFFFFFFE, num_entries <= length / 2.
OpenLoadInvariant ==
  (prog = "open" /\ olast.returned) =>
    U32Le(open.num_entries, U32(open.length \div 2))

\* an insert has brought a table that grew to exactly half full
OpenLoadInvariantWitness ==
  /\ prog = "open" /\ olast.returned /\ open.length > MIN_LENGTH
  /\ open.num_entries = U32(open.length \div 2)

\* C9: both tables start at length MIN_LENGTH = 8 with num_entries = 0, and
\* after any sequence of insert and remove calls the table length is a power
\* of two and at least MIN_LENGTH.
LengthInvariant ==
  /\ prog = "open" =>
       /\ IsPowerOfTwo(open.length) /\ open.length >= MIN_LENGTH
       /\ onums = NoNums => (open.length = 8 /\ open.num_entries = U32(0))
  /\ prog = "chain" =>
       /\ IsPowerOfTwo(chain.length) /\ chain.length >= MIN_LENGTH
       /\ cnums = NoNums => (chain.length = 8 /\ chain.num_entries = U32(0))

\* an open-addressing table that grew past 16 has just been rebuilt at 8
LengthInvariantWitness ==
  /\ prog = "open" /\ olast.returned /\ olast.rehashes = 1
  /\ onums.i = MaxNums /\ open.length = MIN_LENGTH

\* C10: in both tables no three consecutive calls each change the table
\* length.
NoThreeRebuilds ==
  /\ prog = "open" => ostreak < 3
  /\ prog = "chain" => cstreak < 3

\* a remove that shrank an open-addressing table followed by an insert that
\* grew it
NoThreeRebuildsWitness ==
  /\ prog = "open" /\ olast.returned /\ ostreak = 2 /\ onums.j >= 5

\* the table of RUN_HASH_TEST(DivisionHashFunction, LinearProbingHashFunction)
LinearOverDivision ==
  /\ prog = "open"
  /\ open.prHashFunc.kind = "linear"
  /\ open.prHashFunc.hFunc1.kind = "division"

\* slot i of the open-addressing table after nums[0..n-1] = 5, 13, 21, 29
\* went to slots 5, 6, 7, 0
ScenarioSlot(n, i) ==
  CASE i = 5 /\ n >= 1 -> nums(0)
    [] i = 6 /\ n >= 2 -> nums(1)
    [] i = 7 /\ n >= 3 -> nums(2)
    [] i = 0 /\ n >= 4 -> nums(3)
    [] OTHER -> FREE_MARKER

\* C11: in a fresh open-addressing table with linear probing over division
\* hashing, the inserts of 5, 13, 21, 29 in that order put them in slots 5,
\* 6, 7, 0, none of the four calls rebuilds the table, find(13) returns 13,
\* and after remove(5) find(13) still returns 13.
LinearProbingScenario ==
  (LinearOverDivision /\ onums.free = 0 /\ onums.i <= 4) =>
    /\ onums.j = 0 =>
         /\ olast.returned /\ olast.rehashes = 0 /\ open.length = MIN_LENGTH
         /\ \A i \in 0..(MIN_LENGTH - 1) : open.hashTable[i] = ScenarioSlot(onums.i, i)
         /\ onums.i >= 2 => find(open, nums(1)) = nums(1)
    /\ (onums.i = 4 /\ onums.j = 1) =>
         /\ find(open, nums(0)) = INVALID_KEY
         /\ find(open, nums(1)) = nums(1)

\* 5, 13, 21, 29 were inserted, 5 was removed and left a tombstone in slot 5,
\* the first slot on the way to 13
LinearProbingScenarioWitness ==
  /\ LinearOverDivision /\ onums = [i |-> 4, j |-> 1, free |-> 0]
  /\ open.hashTable[5] = DEL_MARKER /\ open.hashTable[6] = nums(1)
  /\ open.hashTable[0] = nums(3)
  /\ find(open, nums(1)) = nums(1)

\* C12 as claimed: after the inserts of 5, 13, 21, 29 into a fresh
\* open-addressing table of length 8 and the removes of all four, the table
\* has length 4.
ShrinkScenarioToFour ==
  (prog = "open" /\ onums = [i |-> 4, j |-> 4, free |-> 0]) => open.length = 4

\* C12 as amended: after the inserts of 5, 13, 21, 29 into a fresh
\* open-addressing table of length 8 and the removes of all four, the table
\* is empty and still has length 8: length / 4 < MIN_LENGTH, no remove
\* rebuilds it.
ShrinkScenarioStaysAtEight ==
  (prog = "open" /\ onums = [i |-> 4, j |-> 4, free |-> 0]) =>
    /\ olast.returned /\ olast.rehashes = 0
    /\ open.length = MIN_LENGTH /\ open.num_entries = U32(0)
    /\ \A x \in 0..3 : find(open, nums(x)) = INVALID_KEY

\* the four keys inserted and removed: four tombstones in a table of length 8
ShrinkScenarioWitness ==
  /\ LinearOverDivision /\ onums = [i |-> 4, j |-> 4, free |-> 0]
  /\ Cardinality(Tombstones(open)) = 4 /\ open.length = MIN_LENGTH

\* the chaining table has only received inserts of nums[0..n-1]
ChainOnlyInserts(n) ==
  prog = "chain" /\ cnums = [i |-> n, j |-> 0, free |-> 0]

\* C13 as claimed: in a fresh chaining table the 8th insert rebuilds the
\* table to length 16 before it places its key.
ChainEighthInsertGrows ==
  ChainOnlyInserts(8) => (chain.length = 2 * MIN_LENGTH /\ clast.rehashes = 1)

\* C13 as amended: in a fresh chaining table the first 8 inserts leave the
\* length at 8 and rebuild nothing; the 9th insert, made when num_entries =
\* length = 8, rebuilds the table to length 16 before it places its key (the
\* key is the last of its chain), and all 9 keys are found afterwards.
ChainNinthInsertGrows ==
  /\ \A n \in 0..MIN_LENGTH :
       ChainOnlyInserts(n) =>
         /\ chain.length = MIN_LENGTH /\ clast.rehashes = 0
         /\ chain.num_entries = U32(n)
         /\ \A x \in 0..(n - 1) : chain_find(chain, nums(x)) = nums(x)
  /\ ChainOnlyInserts(MIN_LENGTH + 1) =>
       /\ chain.length = 2 * MIN_LENGTH /\ clast.rehashes = 1
       /\ chain.num_entries = U32(MIN_LENGTH + 1)
       /\ \A x \in 0..MIN_LENGTH : chain_find(chain, nums(x)) = nums(x)
       /\ LET ch == chain.hashTable[Hash(chain.hashFunc, nums(MIN_LENGTH))]
          IN  Len(ch) > 0 /\ ch[Len(ch)] = nums(MIN_LENGTH)

\* nine keys inserted into a fresh chaining table, now of length 16
ChainNinthInsertGrowsWitness ==
  /\ ChainOnlyInserts(MIN_LENGTH + 1)
  /\ chain.length = 2 * MIN_LENGTH /\ clast.rehashes = 1
  /\ chain_find(chain, nums(MIN_LENGTH)) = nums(MIN_LENGTH)

\* C14: for every N >= 2, after N keys were inserted into a fresh chaining
\* table and all but 2 of them removed, each present when removed, the table
\* has length MIN_LENGTH = 8.  It follows from what holds after every call of
\* such a client: the length is MIN_LENGTH or num_entries > length / 4.
ChainShrinksToMin ==
  (prog = "chain" /\ cnums.free = 0) =>
    /\ chain.length = MIN_LENGTH \/ ~U32Le(chain.num_entries, U32(chain.length \div 4))
    /\ (cnums.i >= 2 /\ cnums.j = cnums.i - 2) =>
         /\ chain.length = MIN_LENGTH /\ chain.num_entries = U32(2)
         /\ \A x \in cnums.j..(cnums.i - 1) : chain_find(chain, nums(x)) = nums(x)

\* nine keys were inserted, which takes the table to length 16, and seven of
\* them removed
ChainShrinksToMinWitness ==
  /\ prog = "chain" /\ cnums = [i |-> MIN_LENGTH + 1, j |-> MIN_LENGTH - 1, free |-> 0]
  /\ chain.length = MIN_LENGTH /\ chain.num_entries = U32(2)

\* C15: for every N >= 4, after N distinct keys were inserted into a fresh
\* open-addressing table and all but 4 of them removed, the table has length
\* MIN_LENGTH = 8.
OpenShrinksToMin ==
  (prog = "open" /\ olast.returned /\ onums.free = 0
     /\ onums.i >= 4 /\ onums.j = onums.i - 4) =>
    open.length = MIN_LENGTH

\* the keys stored in an open-addressing table
OpenStored(t) ==
  {t.hashTable[i] : i \in 0..(t.length - 1)} \ {FREE_MARKER, DEL_MARKER}

\* the number of slots of an open-addressing table that hold key
OpenCount(t, key) == Cardinality({i \in 0..(t.length - 1) : t.hashTable[i] = key})

\* the number of occurrences of key in the chains of a chaining table
ChainCount(t, key) ==
  Cardinality(UNION {{<<i, p>> : p \in {q \in 1..Len(t.hashTable[i]) : t.hashTable[i][q] = key}} :
                       i \in 0..(t.length - 1)})

\* the number of keys in the chains of a chaining table
ChainSize(t) ==
  Cardinality(UNION {{<<i, p>> : p \in 1..Len(t.hashTable[i])} : i \in 0..(t.length - 1)})

\* C16: in both tables insert(INVALID_KEY) stores nothing: the stored keys
\* and num_entries are after the call what they were before it.
SentinelNotInsertable ==
  [][/\ OInsert(INVALID_KEY) =>
          /\ OpenStored(open') = OpenStored(open)
          /\ open'.num_entries = open.num_entries
     /\ CInsert(INVALID_KEY) =>
          /\ \A k \in ChainKeys : ChainCount(chain', k) = ChainCount(chain, k)
          /\ chain'.num_entries = chain.num_entries]_vars

\* C17: in the open-addressing table insert(k) of a key k that is already
\* stored changes nothing: the slot array, num_entries and the length are
\* after the call what they were before it.
OpenInsertIdempotent ==
  [][\A key \in FreeKeys :
       (OInsert(key) /\ key \in OpenStored(open)) =>
         /\ open'.hashTable = open.hashTable
         /\ open'.num_entries = open.num_entries
         /\ open'.length = open.length]_vars

\* C18: in the chaining table, after any sequence of insert and remove calls,
\* removes of absent keys and removes on an empty table included, num_entries
\* is the number of keys in the chains (and so never wraps below zero).
ChainEntryCount ==
  prog = "chain" => chain.num_entries = U32(ChainSize(chain))

\* C19: in the open-addressing table, after any sequence of insert and remove
\* calls with keys below 0xFFFFFFFE, num_entries is the number of slots that
\* hold a key; slots holding FREE_MARKER or DEL_MARKER are not counted.
OpenEntryCount ==
  (prog = "open" /\ olast.returned) =>
    open.num_entries =
      U32(Cardinality({i \in 0..(open.length - 1) :
                         open.hashTable[i] \notin {FREE_MARKER, DEL_MARKER}}))

\* a table that was rebuilt to length 16 holds 3 keys next to 2 or more
\* tombstones
OpenEntryCountWitness ==
  /\ prog = "open" /\ olast.returned /\ open.length = 2 * MIN_LENGTH
  /\ Cardinality(Tombstones(open)) >= 2
  /\ open.num_entries = U32(3) /\ Cardinality(OpenStored(open)) = 3

\* C20: in the open-addressing table, after any sequence of insert and remove
\* calls with keys below 0xFFFFFFFE, no key is held by two slots, inserts
\* that passed over tombstones and rebuilds included.
OpenUniqueness ==
  prog = "open" => \A key \in OpenStored(open) : OpenCount(open, key) = 1

\* the key not in nums is stored once, after two calls with it, behind a
\* tombstone that lies earlier on its probe sequence
OpenUniquenessWitness ==
  /\ prog = "open" /\ olast.returned /\ onums.free >= 2
  /\ \E key \in FreeKeys :
       /\ key \in olive /\ OpenCount(open, key) = 1
       /\ open.hashTable[Probe(open.prHashFunc, key, 0)] = DEL_MARKER

\* the first slot on the probe sequence of key, from trial probe on, that
\* holds FREE_MARKER or DEL_MARKER (t.length if the first t.length trials
\* meet none)
RECURSIVE FirstFreeOrTombstone(_, _, _)
FirstFreeOrTombstone(t, key, probe) ==
  LET index == Probe(t.prHashFunc, key, probe)
  IN  IF t.hashTable[index] \in {FREE_MARKER, DEL_MARKER} THEN index
      ELSE IF probe + 1 < t.length THEN FirstFreeOrTombstone(t, key, probe + 1)
      ELSE t.length

\* C21: in the open-addressing table insert(k) of a key k that is not
\* present puts k in the first slot of k's probe sequence that holds
\* FREE_MARKER or DEL_MARKER, and increments num_entries (stated of the
\* inserts of nums that do not rebuild the table).
OpenInsertReusesTombstone ==
  [][(OInsertNum /\ olast'.returned /\ olast'.rehashes = 0) =>
       /\ FirstFreeOrTombstone(open, nums(onums.i), 0) < open.length
       /\ open'.hashTable[FirstFreeOrTombstone(open, nums(onums.i), 0)] = nums(onums.i)
       /\ open'.num_entries = U32Inc(open.num_entries)]_vars

\* C22: in the open-addressing table a remove of a present key that does not
\* rebuild the table overwrites the key's slot with DEL_MARKER; a call that
\* does not rebuild the table turns no slot that holds a key or DEL_MARKER
\* into FREE_MARKER and keeps every tombstone; a call that rebuilds the table
\* leaves no tombstone.
TombstoneLifecycle ==
  [][(prog = "open" /\ olast'.returned) =>
       IF olast'.rehashes = 0
         THEN /\ open'.length = open.length
              /\ \A i \in 0..(open.length - 1) :
                   /\ open.hashTable[i] # FREE_MARKER => open'.hashTable[i] # FREE_MARKER
                   /\ open.hashTable[i] = DEL_MARKER => open'.hashTable[i] = DEL_MARKER
              /\ (onums'.j # onums.j /\ nums(onums.j) \in OpenStored(open)) =>
                   open'.hashTable[find_index(open, nums(onums.j))] = DEL_MARKER
         ELSE Tombstones(open') = {}]_vars

\* a table of length 32 that held tombstones has just been rebuilt by a
\* remove and holds none
TombstoneLifecycleWitness ==
  /\ prog = "open" /\ olast.returned /\ olast.rehashes = 1
  /\ open.length = MIN_LENGTH /\ onums.j >= 5
  /\ Tombstones(open) = {} /\ OpenStored(open) # {}

\* C23: a call that rebuilds a table changes the stored keys by the key of
\* the call only: in the open-addressing table the set of stored keys gains
\* the inserted key or loses the removed one and is otherwise the same; in
\* the chaining table the number of occurrences of every key changes by what
\* the call itself added or erased (nothing, for a remove of an absent key);
\* and afterwards num_entries is the number of keys the table holds.
RebuildPreservesContents ==
  [][/\ (prog = "open" /\ olast'.returned /\ olast'.rehashes >= 1) =>
          /\ OpenStored(open') \ OpenStored(open) = olive' \ olive
          /\ OpenStored(open) \ OpenStored(open') = olive \ olive'
          /\ open'.num_entries = U32(Cardinality(OpenStored(open')))
     /\ (prog = "chain" /\ clast'.rehashes >= 1) =>
          /\ \A k \in ChainKeys :
               ChainCount(chain', k) - ChainCount(chain, k) = clive'[k] - clive[k]
          /\ chain'.num_entries = U32(ChainSize(chain'))]_vars

\* a chaining table that holds a key twice has just been rebuilt
RebuildPreservesContentsWitness ==
  /\ prog = "chain" /\ clast.rehashes >= 1
  /\ \E k \in FreeKeys : ChainCount(chain, k) >= 2 /\ clive[k] = ChainCount(chain, k)
  /\ chain.num_entries = U32(ChainSize(chain))

\* C24: in the chaining table, after every call, the hash function is sized
\* to the table (M = length; R the bit width of M for multiplication hashing;
\* P the prime drawn for M and A, B below P for universal hashing) and every
\* key in chain i hashes to i under it.
ChainBucketConsistency ==
  prog = "chain" =>
    /\ chain.hashFunc.M = chain.length
    /\ chain.hashFunc.kind = "multiplication" => 2^chain.hashFunc.R = chain.length
    /\ chain.hashFunc.kind = "universal" =>
         /\ chain.hashFunc.P = least_prime_larger_than(chain.length)
         /\ chain.hashFunc.A < chain.hashFunc.P /\ chain.hashFunc.B < chain.hashFunc.P
    /\ \A i \in 0..(chain.length - 1) :
         \A p \in 1..Len(chain.hashTable[i]) :
           Hash(chain.hashFunc, chain.hashTable[i][p]) = i

\* a table with universal hashing was rebuilt to length 16 and holds 9 or
\* more keys, not all in one chain
ChainBucketConsistencyWitness ==
  /\ prog = "chain" /\ chain.hashFunc.kind = "universal"
  /\ chain.length = 2 * MIN_LENGTH /\ ChainSize(chain) >= 9
  /\ Cardinality({i \in 0..(chain.length - 1) : chain.hashTable[i] # <<>>}) >= 2

\* C25: in the open-addressing table, in every state in which insert, find
\* or remove evaluates the probing function, its modulus M and the modulus of
\* its hash function (of both, for double hashing) are the table's length,
\* though the objects were constructed with the size N.
OpenResizePropagation ==
  prog = "open" =>
    /\ open.prHashFunc.M = open.length
    /\ open.prHashFunc.hFunc1.M = open.length
    /\ open.prHashFunc.hFunc2.M = open.length

\* a double-hashing table, its functions constructed with size N, has grown
\* to length 32
OpenResizePropagationWitness ==
  /\ prog = "open" /\ open.prHashFunc.kind = "double"
  /\ open.length = 4 * MIN_LENGTH /\ open.length # N
  /\ open.prHashFunc.M = open.length
  /\ open.prHashFunc.hFunc2.M = open.length
  /\ open.prHashFunc.hFunc2.P = least_prime_larger_than(open.length)

\* n is a prime number
IsPrime(n) == n > 1 /\ \A d \in 2..(n - 1) : n % d # 0

\* C26: for every size M >= 1 given to UniversalHashFunction, at construction
\* or on a size change, P is the least prime greater than M, is_prime agrees
\* with primality on the numbers up to P, and A and B lie in [0, P).
UniversalParameters ==
  prog = "universal" =>
    /\ fn.hf.P > fn.hf.M /\ IsPrime(fn.hf.P)
    /\ \A n \in (fn.hf.M + 1)..(fn.hf.P - 1) : ~IsPrime(n)
    /\ \A n \in 1..fn.hf.P : is_prime(n) = IsPrime(n)
    /\ fn.hf.A \in 0..(fn.hf.P - 1) /\ fn.hf.B \in 0..(fn.hf.P - 1)

\* C27: in the open-addressing table remove(k) of a k that is not stored, the
\* values 0xFFFFFFFF and 0xFFFFFFFE included, changes nothing: the slot
\* array, num_entries and the length are after the call what they were
\* before it.
OpenRemoveAbsentNoOp ==
  [][\A key \in FreeKeys \cup ReservedKeys :
       (ORemove(key) /\ key \notin OpenStored(open)) =>
         /\ open'.hashTable = open.hashTable
         /\ open'.num_entries = open.num_entries
         /\ open'.length = open.length]_vars

\* C28: in the open-addressing table, for every key k other than INVALID_KEY,
\* k = 0xFFFFFFFE included, find(k) returns k only if the most recent call
\* with k was an insert, and then it does return k, whatever rebuilds came
\* after.
OpenNoPhantomKeys ==
  prog = "open" =>
    \A k \in NumsKeys \cup FreeKeys \cup {DEL_MARKER} :
      find(open, k) = k <=> k \in olive


\* C29: rebuilds do not nest.  In both tables every public insert or remove,
\* removes of absent keys in the chaining table included, performs at most
\* one rebuild: the re-insertion loop of a rebuild never starts another.
RebuildsDoNotNest ==
  /\ prog = "open" => olast.rehashes <= 1
  /\ prog = "chain" => clast.rehashes <= 1


\* C30: no back-to-back rebuilds in the open-addressing table.  With keys
\* below 0xFFFFFFFE, two consecutive public operations never both rebuild the
\* table; an insert right after a remove that shrank it does not grow it.
NoBackToBackRebuilds ==
  prog = "open" => ostreak < 2

====
